---------------------------- MODULE Spec2Model ----------------------------
(***************************************************************************)
(* A model of app/services/solvers/recaptcha.py: the reCAPTCHA solver of   *)
(* the OpenSea bulk uploader.                                              *)
(*                                                                         *)
(*   - Solver.solve with its retry counter, Solver.select_blocks with its  *)
(*     shuffled first pass and its re-check worklist, Actions.human_click, *)
(*     Actions.confirm, Actions.reload, Solver.check_error and             *)
(*     OCR.image_from_url are one state machine (Spec, FairSpec).  The     *)
(*     browser, the HTTP client and the two models are the environment:    *)
(*     every call into them either answers with a value drawn from a small *)
(*     set or raises.                                                      *)
(*   - OCR.object_coordinates is a pure function of the image side and of  *)
(*     the detector's records; SpecOC applies it to bounded inputs.        *)
(***************************************************************************)
EXTENDS Integers, Sequences, FiniteSets, TLC

VARIABLES
    pc,         \* position of solve / select_blocks / human_click
    ret,        \* what solve returned: "none", "True", "False", "raised"
    failed,     \* solve's local counter `failed`
    start,      \* actions.start
    blocks,     \* recaptcha.blocks (0: not set yet)
    _class,     \* ocr._class
    image,      \* the array image_from_url returned to its caller
    result,     \* select_blocks' local `result`
    _range,     \* select_blocks' local `_range`, shuffled
    idx,        \* position of `for block in _range` (1-based)
    clicked,    \* select_blocks' local `clicked`
    passLeft,   \* iterations left of `for _ in range(len(clicked))`
    cur,        \* select_blocks' local `_element` (the tile popped)
    sb_ret,     \* what select_blocks returned: "none", "True", "False"
    hc_end,     \* human_click's argument `end`
    hc_ret,     \* where human_click returns to
    exc,        \* the exception that escaped the current iteration body
    \* observations of the environment, read by the properties only
    escaped,    \* exceptions that reached solve's handler so far
    log,        \* browser and model calls of the current iteration, in order
    decoded,    \* what imdecode gave image_from_url
    enhRaised,  \* whether upsampler.enhance raised in the last image_from_url
    passStart,  \* `clicked` when the current re-check pass began
    obs,        \* <<tile, replaced, found>> per tile examined in this pass
    reclicks,   \* tiles found again in a replaced image, this iteration
    \* OCR.object_coordinates on its own (SpecOC)
    oc_pc, oc_image, oc_class, oc_results, oc_out

solveVars == <<pc, ret, failed, start, blocks, _class, image, result, _range,
               idx, clicked, passLeft, cur, sb_ret, hc_end, hc_ret, exc,
               escaped, log, decoded, enhRaised, passStart, obs, reclicks>>
ocVars == <<oc_pc, oc_image, oc_class, oc_results, oc_out>>
vars == <<solveVars, ocVars>>

(***************************************************************************)
(* Bounds of the model.                                                    *)
(***************************************************************************)
\* boxes have their corners on a grid of CoordDiv steps per side
CoordDiv == 2
\* records the detector returns for one image (SpecOC)
MaxDetections == 2
\* records the detector returns for the 4x4 image inside solve
MaxSolveDetections == 1
\* the detector finds the target class in 3x3 tiles among the first MaxTile
MaxTile == 3
\* shuffle draws a rotation by 0..MaxShift of the range, or its reverse
MaxShift == 1
\* replaced tiles in which the target class is found again, per iteration
MaxReclicks == 1
\* the count of escaped exceptions stops here (solve ends at the third)
MaxEscaped == 4

(***************************************************************************)
(* Values.                                                                 *)
(***************************************************************************)
Target == "car"                 \* a key of assets/classes.json
Other == "bus"                  \* a COCO class that is not the target
Names == {Target, Other}
Labels == {Target, ""}          \* what set_class can yield
NetScale == 4                   \* RRDBNet(scale=4): enhance returns 4 x the side
DecodedSides == {100}           \* side of the square image the challenge serves
ImageSides == DecodedSides \union {s * NetScale : s \in DecodedSides}
NoImage == [side |-> 0, enhanced |-> FALSE]
Images == [side : DecodedSides, enhanced : {FALSE}]

(***************************************************************************)
(* OCR.object_coordinates, lines 139-159.                                  *)
(***************************************************************************)
Margin == 25
chunk_number == 4

\* math.ceil(a / b) for an integer a and b > 0
Ceil(a, b) == (a + b - 1) \div b

\* lines 146-147: the box shrunk by the margin
Coordinates(r) ==
    <<r.xmin + Margin, r.ymin + Margin, r.xmax - Margin, r.ymax - Margin>>

\* lines 149-150: ceil(coordinate / image.shape[0] * chunk_number)
Coordinate(cs, side) == [i \in 1..4 |-> Ceil(cs[i] * chunk_number, side)]

\* lines 151-153: product(range(c[0], c[2] + 1), range(c[1], c[3] + 1))
Chunks(c) == {<<x, y>> : x \in c[1]..c[3], y \in c[2]..c[4]}

\* lines 145-153: `_result` as the set the return statement makes of it
ChunkSet(results, cls, side) ==
    UNION {Chunks(Coordinate(Coordinates(results[i]), side)) :
              i \in {j \in 1..Len(results) : results[j].name = cls}}

\* lines 154-157: the dict literal
TileNumber ==
    (<<1, 1>> :> 1) @@ (<<1, 2>> :> 2) @@ (<<1, 3>> :> 3) @@ (<<1, 4>> :> 4) @@
    (<<2, 1>> :> 5) @@ (<<2, 2>> :> 6) @@ (<<2, 3>> :> 7) @@ (<<2, 4>> :> 8) @@
    (<<3, 1>> :> 9) @@ (<<3, 2>> :> 10) @@ (<<3, 3>> :> 11) @@ (<<3, 4>> :> 12) @@
    (<<4, 1>> :> 13) @@ (<<4, 2>> :> 14) @@ (<<4, 3>> :> 15) @@ (<<4, 4>> :> 16)

TileKeySwapped(x, y) == <<IF x # 0 THEN x ELSE 1, IF y # 0 THEN y ELSE 1>>

\* lines 157-158: the key (y if y != 0 else 1, x if x != 0 else 1)
TileKey(x, y) == <<IF y # 0 THEN y ELSE 1, IF x # 0 THEN x ELSE 1>>

\* lines 127-133 of find_object: blocks == 4
find_object_4(cls, yolo) == IF cls # "" THEN yolo ELSE <<>>

\* lines 139-159: raised is the KeyError of the dict lookup
object_coordinates(side, cls, yolo) ==
    LET results == find_object_4(cls, yolo)
        keys == {TileKey(p[1], p[2]) : p \in ChunkSet(results, cls, side)}
    IN  IF keys \subseteq DOMAIN TileNumber
        THEN [raised |-> FALSE,
              value |-> [number \in 1..(chunk_number * chunk_number) |->
                            number \in {TileNumber[k] : k \in keys}]]
        ELSE [raised |-> TRUE, value |-> <<>>]

\* the detector's boxes lie inside the image
GridPoints(side) == {(k * side) \div CoordDiv : k \in 0..CoordDiv}
Detections(side) ==
    {[name |-> n, xmin |-> x1, ymin |-> y1, xmax |-> x2, ymax |-> y2] :
        n \in Names,
        x1 \in GridPoints(side), x2 \in GridPoints(side),
        y1 \in GridPoints(side), y2 \in GridPoints(side)}

BoxOk(d) == d.xmin < d.xmax /\ d.ymin < d.ymax

OCInit ==
    /\ oc_pc = "input"
    /\ oc_image \in ImageSides
    /\ oc_class \in Labels
    /\ oc_results = <<>>
    /\ oc_out = [raised |-> FALSE, value |-> <<>>]

\* the detector's answer for the image, one record at a time
OCDetect ==
    /\ oc_pc = "input"
    /\ Len(oc_results) < MaxDetections
    /\ \E d \in Detections(oc_image) :
          /\ BoxOk(d)
          /\ oc_results' = Append(oc_results, d)
    /\ UNCHANGED <<oc_pc, oc_image, oc_class, oc_out, solveVars>>

OCCall ==
    /\ oc_pc = "input"
    /\ oc_out' = object_coordinates(oc_image, oc_class, oc_results)
    /\ oc_pc' = "returned"
    /\ UNCHANGED <<oc_image, oc_class, oc_results, solveVars>>


(***************************************************************************)
(* Elements of the page, and the calls the properties observe.             *)
(***************************************************************************)
None == [kind |-> "None", pos |-> 0]
Unset == [kind |-> "unset", pos |-> 0]     \* Actions has no attribute `start` yet
Anchor == [kind |-> "anchor", pos |-> 0]
ConfirmButton == [kind |-> "confirm", pos |-> 0]
ReloadButton == [kind |-> "reload", pos |-> 0]
Tile(k) == [kind |-> "tile", pos |-> k]

ClickEvent(e) == <<e.kind, e.pos>>

(***************************************************************************)
(* OCR.image_from_url, lines 98-105.                                       *)
(***************************************************************************)
Upscaled(img) == [side |-> img.side * NetScale, enhanced |-> TRUE]

\* upsampler.enhance(image)[0] either raises or returns the enhanced array
EnhanceOutcomes(img) ==
    {[raise |-> TRUE, value |-> NoImage], [raise |-> FALSE, value |-> Upscaled(img)]}

image_from_url_unguarded(img, enh) ==
    IF enh.raise
    THEN [raised |-> TRUE, value |-> NoImage]
    ELSE [raised |-> FALSE, value |-> enh.value]

\* lines 102-105: try: return enhance(image)[0]  except Exception: return image
image_from_url(img, enh) ==
    IF enh.raise
    THEN [raised |-> FALSE, value |-> img]
    ELSE [raised |-> FALSE, value |-> enh.value]

(***************************************************************************)
(* OCR.divide_blocks, find_object (blocks == 3) and check_blocks.          *)
(***************************************************************************)
\* lines 112-116: one entry per slice of the image
divide_blocks(side, n) ==
    LET step == Ceil(side, n)
        rows == Ceil(side, step)
        columns == Ceil(side, step)
    IN  [k \in 1..(rows * columns) |-> k]

\* lines 120-126: the names the detector finds in each image, or []
find_object_3(cls, yolo) == IF cls # "" THEN yolo ELSE <<>>

\* line 137
check_blocks(result_list, cls) ==
    [k \in 1..Len(result_list) |-> cls \in result_list[k]]

\* the detector finds the target class in the tiles of F, another class elsewhere
YoloNames(image_list, F) ==
    [k \in 1..Len(image_list) |-> IF k \in F THEN {Target, Other} ELSE {Other}]

DetectionLists(side, n) ==
    UNION {[1..k -> {d \in Detections(side) : BoxOk(d)}] : k \in 0..n}

(***************************************************************************)
(* random.shuffle, line 243: a rotation of range(n), or its reverse.       *)
(***************************************************************************)
Rotation(n, s) == [i \in 1..n |-> (i - 1 + s) % n]
Reversed(p) == [i \in 1..Len(p) |-> p[Len(p) + 1 - i]]
Shuffles(n) ==
    {Rotation(n, s) : s \in 0..MaxShift} \union
    {Reversed(Rotation(n, s)) : s \in 0..MaxShift}

(***************************************************************************)
(* Solver.solve, lines 265-290, and what it calls.                         *)
(***************************************************************************)
SolveInit ==
    /\ pc = "start"
    /\ ret = "none"
    /\ failed = 0
    /\ start = Unset
    /\ blocks = 0
    /\ _class = ""
    /\ image = NoImage
    /\ result = <<>>
    /\ _range = <<>>
    /\ idx = 0
    /\ clicked = <<>>
    /\ passLeft = 0
    /\ cur = 0
    /\ sb_ret = "none"
    /\ hc_end = None
    /\ hc_ret = "none"
    /\ exc = "none"
    /\ escaped = 0
    /\ log = <<>>
    /\ decoded = NoImage
    /\ enhRaised = FALSE
    /\ passStart = <<>>
    /\ obs = <<>>
    /\ reclicks = 0

OCIdle ==
    /\ oc_pc = "idle"
    /\ oc_image = 0
    /\ oc_class = ""
    /\ oc_results = <<>>
    /\ oc_out = [raised |-> FALSE, value |-> <<>>]

SolveIdle ==
    /\ pc = "idle"
    /\ ret = "none"
    /\ failed = 0
    /\ start = Unset
    /\ blocks = 0
    /\ _class = ""
    /\ image = NoImage
    /\ result = <<>>
    /\ _range = <<>>
    /\ idx = 0
    /\ clicked = <<>>
    /\ passLeft = 0
    /\ cur = 0
    /\ sb_ret = "none"
    /\ hc_end = None
    /\ hc_ret = "none"
    /\ exc = "none"
    /\ escaped = 0
    /\ log = <<>>
    /\ decoded = NoImage
    /\ enhRaised = FALSE
    /\ passStart = <<>>
    /\ obs = <<>>
    /\ reclicks = 0

\* an exception leaves the try body of line 269 for the handler of line 280
Escape(kind) ==
    /\ pc' = "except"
    /\ exc' = kind
    /\ escaped' = IF escaped < MaxEscaped THEN escaped + 1 ELSE escaped

\* the step ends inside the try body
Goto(next) ==
    /\ pc' = next
    /\ UNCHANGED <<exc, escaped>>

\* the call human_click(end), to return to `after`
Call_human_click(end, after) ==
    /\ pc' = "human_click"
    /\ hc_end' = end
    /\ hc_ret' = after

\* select_blocks has returned or was left by an exception: its locals are gone
DropFrame ==
    /\ result' = <<>>
    /\ _range' = <<>>
    /\ idx' = 0
    /\ clicked' = <<>>
    /\ passLeft' = 0
    /\ cur' = 0
    /\ sb_ret' = "none"
    /\ passStart' = <<>>
    /\ obs' = <<>>
    /\ reclicks' = 0

\* a new turn of `while True`: nothing of the previous one is left
FreshIteration ==
    /\ DropFrame
    /\ image' = NoImage
    /\ log' = <<>>
    /\ decoded' = NoImage
    /\ enhRaised' = FALSE

\* line 267: get_webdriver(web), self.open_challenge() up to its human_click
OpenChallenge ==
    /\ pc = "start"
    /\ \E ok \in BOOLEAN :
          IF ok
          THEN /\ Call_human_click(Anchor, "oc_switch")
               /\ UNCHANGED ret
          ELSE /\ pc' = "done"
               /\ ret' = "raised"
               /\ UNCHANGED <<hc_end, hc_ret>>
    /\ UNCHANGED <<failed, start, blocks, _class, image, result, _range, idx,
                   clicked, passLeft, cur, sb_ret, exc, escaped, log, decoded,
                   enhRaised, passStart, obs, reclicks, ocVars>>

\* lines 212-214: back to the page, into the challenge frame
OpenChallengeSwitch ==
    /\ pc = "oc_switch"
    /\ \E ok \in BOOLEAN :
          IF ok
          THEN pc' = "poll" /\ UNCHANGED ret
          ELSE pc' = "done" /\ ret' = "raised"
    /\ UNCHANGED <<failed, start, blocks, _class, image, result, _range, idx,
                   clicked, passLeft, cur, sb_ret, hc_end, hc_ret, exc, escaped,
                   log, decoded, enhRaised, passStart, obs, reclicks, ocVars>>

\* lines 270-273: the poll, the reset of actions.start, the wait
IterStart ==
    /\ pc = "poll"
    /\ FreshIteration
    /\ \E opened \in {"True", "False", "raise", "sleep raises"} :
          CASE opened = "raise" ->
                  /\ Escape("external")
                  /\ UNCHANGED <<ret, start>>
            [] opened = "False" ->
                  /\ pc' = "done"
                  /\ ret' = "True"
                  /\ exc' = "none"
                  /\ UNCHANGED <<start, escaped>>
            [] opened = "sleep raises" ->
                  /\ start' = None
                  /\ Escape("external")
                  /\ UNCHANGED ret
            [] OTHER ->
                  /\ start' = None
                  /\ pc' = "select"
                  /\ exc' = "none"
                  /\ UNCHANGED <<ret, escaped>>
    /\ UNCHANGED <<failed, blocks, _class, hc_end, hc_ret, ocVars>>

\* lines 237-240: the grid's size from the table's class, then set_class
SelectRead ==
    /\ pc = "select"
    /\ \E out \in {"ok", "table raises", "label raises"}, b \in {3, 4}, c \in Labels :
          CASE out = "table raises" ->
                  /\ Escape("external")
                  /\ UNCHANGED <<blocks, _class, log>>
            [] out = "label raises" ->
                  /\ blocks' = b
                  /\ Escape("external")
                  /\ UNCHANGED <<_class, log>>
            [] OTHER ->
                  /\ blocks' = b
                  /\ _class' = c
                  /\ log' = Append(log, <<"set_class", IF c # "" THEN 1 ELSE 0>>)
                  /\ Goto("sb_image")
    /\ UNCHANGED <<ret, failed, start, image, result, _range, idx, clicked,
                   passLeft, cur, sb_ret, hc_end, hc_ret, decoded, enhRaised,
                   passStart, obs, reclicks, ocVars>>

\* lines 109-111, 141-143 and 258-260: the tile image's src, then
\* image_from_url (lines 98-105)
FetchImage ==
    /\ pc \in {"sb_image", "rc_image"}
    /\ \E got \in BOOLEAN, img \in Images :
          IF ~got
          THEN /\ Escape("external")
               /\ UNCHANGED <<image, decoded, enhRaised, log>>
          ELSE \E enh \in EnhanceOutcomes(img) :
                  LET r == image_from_url(img, enh)
                  IN  /\ decoded' = img
                      /\ enhRaised' = enh.raise
                      /\ log' = Append(log, <<"fetch", 0>>)
                      /\ IF r.raised
                         THEN /\ Escape("enhance")
                              /\ UNCHANGED image
                         ELSE /\ image' = r.value
                              /\ Goto(IF pc = "sb_image" THEN "sb_detect"
                                                         ELSE "rc_detect")
    /\ UNCHANGED <<ret, failed, start, blocks, _class, result, _range, idx,
                   clicked, passLeft, cur, sb_ret, hc_end, hc_ret, passStart,
                   obs, reclicks, ocVars>>

\* lines 241-243: the list of tiles to click, then shuffle(_range)
SelectDetect ==
    /\ pc = "sb_detect"
    /\ image' = NoImage
    /\ decoded' = NoImage
    /\ enhRaised' = FALSE
    /\ \E ok \in BOOLEAN :
          IF ~ok /\ _class # ""
          THEN /\ Escape("external")
               /\ log' = Append(log, <<"classify", 0>>)
               /\ UNCHANGED <<result, _range, idx>>
          ELSE /\ log' = IF _class # "" THEN Append(log, <<"classify", 0>>) ELSE log
               /\ \E p \in Shuffles(blocks * blocks) :
                     /\ _range' = p
                     /\ idx' = 1
               /\ IF blocks = 3
                  THEN LET image_list == divide_blocks(image.side, blocks)
                       IN  \E F \in SUBSET (1..Len(image_list)) :
                              /\ F \subseteq 1..MaxTile
                              /\ _class = "" => F = {}
                              /\ result' = check_blocks(
                                    find_object_3(_class, YoloNames(image_list, F)),
                                    _class)
                              /\ Goto("sb_for")
                  ELSE \E yolo \in DetectionLists(image.side, MaxSolveDetections) :
                          /\ _class = "" => yolo = <<>>
                          /\ LET r == object_coordinates(image.side, _class, yolo)
                             IN  IF r.raised
                                 THEN /\ Escape("KeyError")
                                      /\ result' = result
                                 ELSE /\ result' = r.value
                                      /\ Goto("sb_for")
    /\ UNCHANGED <<ret, failed, start, blocks, _class, clicked, passLeft, cur,
                   sb_ret, hc_end, hc_ret, passStart, obs, reclicks, ocVars>>

\* lines 244-247: one turn of `for block in _range`, up to the click
ForBlock ==
    /\ pc = "sb_for"
    /\ IF idx > Len(_range)
       THEN /\ Goto("sb_after")
            /\ UNCHANGED <<idx, hc_end, hc_ret>>
       ELSE LET block == _range[idx]
            IN  IF block + 1 > Len(result)
                THEN /\ Escape("IndexError")
                     /\ UNCHANGED <<idx, hc_end, hc_ret>>
                ELSE IF result[block + 1]
                THEN \E ok \in BOOLEAN :
                        IF ok
                        THEN /\ Call_human_click(Tile(block + 1), "sb_append")
                             /\ UNCHANGED <<idx, exc, escaped>>
                        ELSE /\ Escape("external")
                             /\ UNCHANGED <<idx, hc_end, hc_ret>>
                ELSE /\ idx' = idx + 1
                     /\ Goto("sb_for")
                     /\ UNCHANGED <<hc_end, hc_ret>>
    /\ UNCHANGED <<ret, failed, start, blocks, _class, image, result, _range,
                   clicked, passLeft, cur, sb_ret, log, decoded, enhRaised,
                   passStart, obs, reclicks, ocVars>>

\* line 248: clicked.append(...), and on to the next block
AppendClicked ==
    /\ pc = "sb_append"
    /\ clicked' = Append(clicked, _range[idx] + 1)
    /\ idx' = idx + 1
    /\ Goto("sb_for")
    /\ UNCHANGED <<ret, failed, start, blocks, _class, image, result, _range,
                   passLeft, cur, sb_ret, hc_end, hc_ret, log, decoded,
                   enhRaised, passStart, obs, reclicks, ocVars>>

\* lines 249-250; `_range` and the loop's position are not read again
AfterFor ==
    /\ pc = "sb_after"
    /\ IF Len(clicked) = 0
       THEN sb_ret' = "False" /\ Goto("branch")
       ELSE sb_ret' = sb_ret /\ Goto("rc_while")
    /\ _range' = <<>>
    /\ idx' = 0
    /\ UNCHANGED <<ret, failed, start, blocks, _class, image, result, clicked,
                   passLeft, cur, hc_end, hc_ret, log, decoded, enhRaised,
                   passStart, obs, reclicks, ocVars>>

RequeueFront(list, e) == <<e>> \o list

\* line 262: clicked.append(_element)
Requeue(list, e) == Append(list, e)

\* lines 251-252 and 263: the head of the re-check loop
While ==
    /\ pc = "rc_while"
    /\ IF Len(clicked) > 0 /\ blocks = 3
       THEN /\ passLeft' = Len(clicked)
            /\ passStart' = clicked
            /\ obs' = <<>>
            /\ Goto("rc_for")
            /\ UNCHANGED sb_ret
       ELSE /\ sb_ret' = "True"
            /\ Goto("branch")
            /\ UNCHANGED <<passLeft, passStart, obs>>
    /\ UNCHANGED <<ret, failed, start, blocks, _class, image, result, _range,
                   idx, clicked, cur, hc_end, hc_ret, log, decoded, enhRaised,
                   reclicks, ocVars>>

\* lines 252-257: pop the first tile, wait for it, read its image's class
Recheck ==
    /\ pc = "rc_for"
    /\ IF passLeft = 0
       THEN /\ Goto("rc_while")
            /\ UNCHANGED <<passLeft, cur, clicked, obs>>
       ELSE /\ passLeft' = passLeft - 1
            /\ cur' = Head(clicked)
            /\ clicked' = Tail(clicked)
            /\ \E out \in {"raise", "same", "replaced"} :
                  CASE out = "raise" ->
                          /\ Escape("external")
                          /\ UNCHANGED obs
                    [] out = "same" ->
                          /\ obs' = Append(obs, <<Head(clicked), FALSE, FALSE>>)
                          /\ Goto("rc_for")
                    [] OTHER ->
                          /\ Goto("rc_image")
                          /\ UNCHANGED obs
    /\ UNCHANGED <<ret, failed, start, blocks, _class, image, result, _range,
                   idx, sb_ret, hc_end, hc_ret, log, decoded, enhRaised,
                   passStart, reclicks, ocVars>>

\* lines 258-261: the detector on the new image, up to the click
RecheckDetect ==
    /\ pc = "rc_detect"
    /\ image' = NoImage
    /\ decoded' = NoImage
    /\ enhRaised' = FALSE
    /\ \E out \in {"raise", "found", "not found", "click raises"} :
          LET names == find_object_3(_class,
                          YoloNames(<<image>>, IF out \in {"found", "click raises"}
                                               THEN {1} ELSE {}))
          IN  /\ out \in {"found", "click raises"} => reclicks < MaxReclicks
              /\ IF out = "raise" /\ _class # ""
                 THEN /\ Escape("external")
                      /\ log' = Append(log, <<"classify", 0>>)
                      /\ UNCHANGED <<obs, reclicks, hc_end, hc_ret>>
                 ELSE IF Len(names) = 0
                 THEN /\ Escape("IndexError")
                      /\ UNCHANGED <<log, obs, reclicks, hc_end, hc_ret>>
                 ELSE /\ log' = Append(log, <<"classify", 0>>)
                      /\ IF check_blocks(names, _class)[1]
                         THEN /\ obs' = Append(obs, <<cur, TRUE, out # "not found">>)
                              /\ reclicks' = reclicks + 1
                              /\ IF out = "click raises"
                                 THEN /\ Escape("external")
                                      /\ UNCHANGED <<hc_end, hc_ret>>
                                 ELSE /\ Call_human_click(Tile(cur), "rc_append")
                                      /\ UNCHANGED <<exc, escaped>>
                         ELSE /\ obs' = Append(obs, <<cur, TRUE, out # "not found">>)
                              /\ Goto("rc_for")
                              /\ UNCHANGED <<reclicks, hc_end, hc_ret>>
    /\ UNCHANGED <<ret, failed, start, blocks, _class, result, _range, idx,
                   clicked, passLeft, cur, sb_ret, passStart, ocVars>>

\* line 262
RecheckAppend ==
    /\ pc = "rc_append"
    /\ clicked' = Requeue(clicked, cur)
    /\ Goto("rc_for")
    /\ UNCHANGED <<ret, failed, start, blocks, _class, image, result, _range,
                   idx, passLeft, cur, sb_ret, hc_end, hc_ret, log, decoded,
                   enhRaised, passStart, obs, reclicks, ocVars>>

AfterConfirmSkipsCheck == "poll"

\* line 277: after actions.confirm() comes self.check_error()
AfterConfirm == "check_error"

\* lines 275-279 with 200-202 (confirm) and 191-194 (reload), up to the click
Branch ==
    /\ pc = "branch"
    /\ \E ok \in BOOLEAN :
          IF ~ok
          THEN /\ Escape("external")
               /\ UNCHANGED <<hc_end, hc_ret>>
          ELSE /\ IF _class # ""
                  THEN Call_human_click(ConfirmButton, AfterConfirm)
                  ELSE Call_human_click(ReloadButton, "reload_wait")
               /\ UNCHANGED <<exc, escaped>>
    /\ DropFrame
    /\ UNCHANGED <<ret, failed, start, blocks, _class, image, log, decoded,
                   enhRaised, ocVars>>

\* lines 227-233, with 191-194 of the reload it calls
CheckError ==
    /\ pc = "check_error"
    /\ log' = Append(log, <<"check_error", 0>>)
    /\ \E out \in {"raise", "no error", "error"} :
          CASE out = "raise" ->
                  /\ Escape("external")
                  /\ UNCHANGED <<hc_end, hc_ret>>
            [] out = "no error" ->
                  /\ Goto("poll")
                  /\ UNCHANGED <<hc_end, hc_ret>>
            [] OTHER ->
                  /\ Call_human_click(ReloadButton, "reload_wait")
                  /\ UNCHANGED <<exc, escaped>>
    /\ UNCHANGED <<ret, failed, start, blocks, _class, image, result, _range,
                   idx, clicked, passLeft, cur, sb_ret, decoded, enhRaised,
                   passStart, obs, reclicks, ocVars>>

\* lines 195-196: wait until the token changes
ReloadWait ==
    /\ pc = "reload_wait"
    /\ \E ok \in BOOLEAN :
          IF ok THEN Goto("poll") ELSE Escape("external")
    /\ UNCHANGED <<ret, failed, start, blocks, _class, image, result, _range,
                   idx, clicked, passLeft, cur, sb_ret, hc_end, hc_ret, log,
                   decoded, enhRaised, passStart, obs, reclicks, ocVars>>

(***************************************************************************)
(* Actions.human_click, lines 171-187.                                     *)
(***************************************************************************)
\* the targets of the assignment of line 174: start_x, start_y, self.start
UnpackTargets == 3

Location(e) == <<e.pos, e.pos>>

\* lines 174-176, the right-hand side: the conditional expression binds
\* tighter than the comma, so the tuple is (point, end)
StartTuple(from, end, random) ==
    <<IF from = None THEN random ELSE Location(from), end>>

\* lines 171-187: the try block, whose exceptions are passed over, then
\* self.sleep() and end.click()
human_click ==
    /\ pc = "human_click"
    /\ \E random \in {<<30, 30>>, <<60, 60>>} :
          IF start = Unset
          THEN UNCHANGED start
          ELSE LET rhs == StartTuple(start, hc_end, random)
               IN  IF Len(rhs) = UnpackTargets
                   THEN start' = rhs[3]
                   ELSE UNCHANGED start
    /\ \E ok \in BOOLEAN :
          IF ok
          THEN /\ log' = Append(log, ClickEvent(hc_end))
               /\ Goto(hc_ret)
               /\ UNCHANGED ret
          ELSE /\ UNCHANGED log
               /\ IF hc_ret = "oc_switch"
                  THEN pc' = "done" /\ ret' = "raised" /\ UNCHANGED <<exc, escaped>>
                  ELSE Escape("external") /\ UNCHANGED ret
    /\ hc_end' = None
    /\ hc_ret' = "none"
    /\ UNCHANGED <<failed, blocks, _class, image, result, _range, idx, clicked,
                   passLeft, cur, sb_ret, decoded, enhRaised, passStart, obs,
                   reclicks, ocVars>>

(***************************************************************************)
(* The handler of solve, lines 280-289.                                    *)
(***************************************************************************)
CanRetryOffByOne(f) == f <= 2

\* line 281
CanRetry(f) == f < 2

NextFailedForgotten(f) == f

\* line 284
NextFailed(f) == f + 1

Except ==
    /\ pc = "except"
    /\ IF CanRetry(failed)
       THEN \E opened \in {"True", "False", "raise"} :
               IF opened = "True"
               THEN /\ failed' = NextFailed(failed)
                    /\ pc' = "poll"
                    /\ UNCHANGED ret
               ELSE /\ ret' = "True"
                    /\ pc' = "done"
                    /\ UNCHANGED failed
       ELSE /\ ret' = "False"
            /\ pc' = "done"
            /\ UNCHANGED failed
    /\ FreshIteration
    /\ exc' = "none"
    /\ hc_end' = None
    /\ hc_ret' = "none"
    /\ UNCHANGED <<start, blocks, _class, escaped, ocVars>>

(***************************************************************************)
(* The specifications.                                                     *)
(***************************************************************************)
Init == SolveInit /\ OCIdle

Next ==
    \/ OpenChallenge
    \/ OpenChallengeSwitch
    \/ IterStart
    \/ SelectRead
    \/ FetchImage
    \/ SelectDetect
    \/ ForBlock
    \/ AppendClicked
    \/ AfterFor
    \/ While
    \/ Recheck
    \/ RecheckDetect
    \/ RecheckAppend
    \/ Branch
    \/ CheckError
    \/ ReloadWait
    \/ human_click
    \/ Except

Spec == Init /\ [][Next]_vars

\* solve is one thread: it takes its next step whenever it has one
FairSpec == Spec /\ WF_vars(Next)

OCNext == OCDetect \/ OCCall

InitOC == OCInit /\ SolveIdle

SpecOC == InitOC /\ [][OCNext]_vars

(***************************************************************************)
(* What the properties read off the log of the current iteration.          *)
(***************************************************************************)
Pos(kind) == {i \in 1..Len(log) : log[i][1] = kind}
Times(kind) == Cardinality(Pos(kind))
Recognised == \E i \in 1..Len(log) : log[i] = <<"set_class", 1>>
Unrecognised == \E i \in 1..Len(log) : log[i] = <<"set_class", 0>>
ClickedTiles == {log[i][2] : i \in Pos("tile")}
TimesClicked(k) == Cardinality({i \in Pos("tile") : log[i][2] = k})
Flagged == {k \in 1..Len(result) : result[k]}

C1_State ==
    /\ failed \in 0..2
    /\ failed <= escaped
    /\ ret = "False" <=> (pc = "done" /\ escaped = 3 /\ failed = 2)

C1_Step ==
    /\ failed' # failed => (failed' = failed + 1 /\ pc = "except" /\ pc' = "poll")
    /\ (ret' = "False" /\ ret # "False") <=> (pc = "except" /\ failed = 2)

(***************************************************************************)
(* C1: failed starts at 0, never exceeds 2, grows by one only when the     *)
(* handler finds the challenge still open after an escaped exception, and  *)
(* solve returns False exactly at the exception that escapes while         *)
(* failed = 2 (the third one).                                             *)
(***************************************************************************)
C1_RetryCeiling == failed = 0 /\ []C1_State /\ [][C1_Step]_vars

\* the third exception has escaped and solve has returned False
C1_Witness == ret = "False" /\ failed = 2 /\ escaped = 3

(***************************************************************************)
(* C2, as claimed: every execution of solve terminates.                    *)
(***************************************************************************)
C2_Terminates == <>(pc = "done")

(***************************************************************************)
(* C2, amended: an execution of solve terminates, or from some point on no *)
(* exception escapes an iteration any more (the challenge stays open and   *)
(* solve keeps iterating or re-checking).                                  *)
(***************************************************************************)
C2_TerminatesOrRunsClean == <>(pc = "done") \/ <>[](pc # "except")

\* an iteration ran to its end, no exception so far, the challenge is polled again
C2_Witness ==
    pc = "poll" /\ Recognised /\ Pos("check_error") # {} /\ escaped = 0

(***************************************************************************)
(* C3: image_from_url returns the decoded image when enhance raises and    *)
(* the enhanced one when it does not; the failure of enhance never reaches *)
(* solve's handler.                                                        *)
(***************************************************************************)
C3_Fallback ==
    /\ exc # "enhance"
    /\ pc \in {"sb_detect", "rc_detect"} =>
          image = IF enhRaised THEN decoded ELSE Upscaled(decoded)

\* enhance raised and divide_blocks got the decoded image
C3_Witness ==
    pc = "sb_detect" /\ enhRaised /\ image = decoded /\ image \in Images

\* ceil(a * 4 / S) <= c <= ceil(b * 4 / S), without the ceiling
Between(a, c, b, side) == a * 4 <= c * side /\ (c - 1) * side < b * 4

Marks(d, r, c, side) ==
    /\ Between(d.xmin + 25, c, d.xmax - 25, side)
    /\ Between(d.ymin + 25, r, d.ymax - 25, side)

(***************************************************************************)
(* C4: object_coordinates returns 16 booleans, row-major; the entry of row *)
(* r and column c is True exactly when a detection of the target class has *)
(* ceil((xmin+25)*4/S) <= c <= ceil((xmax-25)*4/S) and the same for r with *)
(* ymin and ymax; no KeyError is raised.                                   *)
(***************************************************************************)
C4_TileGrid ==
    oc_pc = "returned" =>
        /\ ~oc_out.raised
        /\ Len(oc_out.value) = 16
        /\ \A r \in 1..4, c \in 1..4 :
              oc_out.value[(r - 1) * 4 + c] <=>
                 \E i \in 1..Len(oc_results) :
                    /\ oc_results[i].name = oc_class
                    /\ Marks(oc_results[i], r, c, oc_image)

\* two detections, one of them of another class, part of the grid marked
C4_Witness ==
    /\ oc_pc = "returned"
    /\ Len(oc_results) = 2
    /\ \E i \in 1..2 : oc_results[i].name # oc_class
    /\ \E k \in 1..16 : oc_out.value[k]
    /\ \E k \in 1..16 : ~oc_out.value[k]

Ordered ==
    /\ \A i \in Pos("tile") :
          /\ \E j \in Pos("fetch") : j < i
          /\ \E j \in Pos("classify") : j < i
    /\ \A i \in Pos("tile"), j \in Pos("confirm") : i < j
    /\ \A i \in Pos("check_error") : \E j \in Pos("confirm") : j < i
    /\ Times("confirm") <= 1

ConfirmedAndChecked == Times("confirm") = 1 /\ Times("check_error") = 1

C6_ReloadWhenUndefined ==
    (Unrecognised /\ pc \in {"poll", "except"} /\ exc # "external") =>
        /\ pc = "poll"
        /\ exc = "none"
        /\ Times("reload") = 1
        /\ Times("tile") = 0
        /\ Times("confirm") = 0

Requeued(o) ==
    LET Again(e) == e[2] /\ e[3]
        kept == SelectSeq(o, Again)
    IN  [i \in 1..Len(kept) |-> kept[i][1]]

(***************************************************************************)
(* C7: the re-check of a 3x3 grid is a FIFO worklist.  At the head of the  *)
(* inner loop the tiles examined in this pass are the first of the pass'   *)
(* initial worklist, each once and in order; the worklist is the rest of   *)
(* it followed by the examined tiles whose image was replaced and showed   *)
(* the target class again, and those are the tiles clicked again;          *)
(* select_blocks returns True with an empty worklist; a 4x4 grid never     *)
(* enters the loop and has every tile clicked at most once.                *)
(***************************************************************************)
C7_Worklist ==
    /\ (pc = "rc_for" \/ (pc = "rc_while" /\ passStart # <<>>)) =>
          /\ blocks = 3
          /\ passLeft = Len(passStart) - Len(obs)
          /\ [i \in 1..Len(obs) |-> obs[i][1]] = SubSeq(passStart, 1, Len(obs))
          /\ clicked = SubSeq(passStart, Len(obs) + 1, Len(passStart)) \o Requeued(obs)
          /\ Times("tile") = Cardinality(Flagged) + reclicks
    /\ pc \in {"rc_for", "rc_image", "rc_detect", "rc_append"} => blocks = 3
    /\ (sb_ret = "True" /\ blocks = 3) => clicked = <<>>
    /\ blocks = 4 => \A k \in 1..16 : TimesClicked(k) <= 1

\* mid-pass: the first of two tiles was clicked again and waits behind the second
C7_Witness ==
    /\ pc = "rc_for"
    /\ Len(passStart) = 2
    /\ Len(obs) = 1
    /\ obs[1][2] /\ obs[1][3]
    /\ clicked = <<passStart[2], passStart[1]>>

\* what the first pass clicked, and what select_blocks returned
FirstPassClicksFlagged ==
    /\ pc = "sb_after" =>
          /\ ClickedTiles = Flagged
          /\ \A k \in Flagged : TimesClicked(k) = 1
          /\ {clicked[i] : i \in 1..Len(clicked)} = Flagged
    /\ (pc = "branch" /\ sb_ret = "False") => Times("tile") = 0
    /\ (pc = "branch" /\ sb_ret = "True") => Times("tile") > 0

(***************************************************************************)
(* C8: the first pass of select_blocks clicks exactly the flagged tiles,   *)
(* each once, whatever the order shuffle gave; with no tile clicked        *)
(* select_blocks returns False and otherwise True: it is never left by an  *)
(* exception of its own.                                                   *)
(***************************************************************************)
C8_ClicksFlaggedAndReturns ==
    /\ FirstPassClicksFlagged
    /\ exc # "IndexError"

ClickPos == Pos("tile") \union Pos("confirm") \union Pos("reload")
LastClick == CHOOSE i \in ClickPos : \A j \in ClickPos : j <= i

(***************************************************************************)
(* C9: once human_click(end) has clicked, actions.start refers to end, so  *)
(* the next pointer movement of the iteration starts from it.              *)
(***************************************************************************)
C9_StartTracksLastClick ==
    (ClickPos # {} /\ pc # "except") =>
        start = [kind |-> log[LastClick][1], pos |-> log[LastClick][2]]

=============================================================================
